---- MODULE Spec2Model ----
(***************************************************************************)
(* A model of the LangChain_101 scripts:                                   *)
(*   - 1_Fundamentals/business_advisor_lcel.py: the three-stage business   *)
(*     advisor pipeline e2e_chain, its tee (parse_and_log_output_chain),   *)
(*     the module-level audit list `logs`, the two key-bridging lambdas    *)
(*     and the AnalysisReport schema;                                      *)
(*   - 2_Tools_and_RAG/ecohome_solution/agent.py: Judge.evaluate_tool_usage*)
(*   - 1_Fundamentals/prompt_routing_langGraph.py: the router exercise.    *)
(***************************************************************************)
EXTENDS Integers, Sequences, FiniteSets, TLC

VARIABLES
  logs,          \* business_advisor_lcel.logs: the audit list
  status,        \* driver: "Idle" | "Running" | "Done" | "Failed"
  step,          \* index in e2e_chain's flattened steps of the current component
  value,         \* the value threaded from one component to the next
  inCall,        \* a model invocation has begun and has not returned
  tee,           \* the RunnableParallel's two branch results while it runs
  result,        \* what e2e_chain.invoke returned
  error,         \* what e2e_chain.invoke raised
  inv,           \* number of invocations of e2e_chain begun in this process
  calls,         \* model invocations begun by the current invocation
  logsAtInvoke,  \* history: the audit list when the current invocation began
  raw,           \* history: the chat messages the model returned to this invocation
  response,      \* history: the model's answer to the structured-output call
  bIn,           \* bridge lambda applied in isolation: its argument
  bTarget,       \*   the key the lambda produces
  bOnce,         \*   the lambda's result on bIn
  bTwice,        \*   the lambda's result on bOnce
  actual_tools,  \* Judge.evaluate_tool_usage: argument
  expected_tools,\*   argument
  scores,        \*   returned dict
  rInput,        \* router: state["input"]
  rAction,       \* router: state["action"]
  rNode,         \* router: the graph node the run is at
  rOutput,       \* router: the value the run ended with
  rPath          \* history: the nodes the run went through

hist == <<raw, response>>
pvars == <<logs, status, step, value, inCall, tee, result, error, inv, calls, logsAtInvoke, hist>>
bvars == <<bIn, bTarget, bOnce, bTwice>>
jvars == <<actual_tools, expected_tools, scores>>
rvars == <<rInput, rAction, rNode, rOutput, rPath>>
vars == <<pvars, bvars, jvars, rvars>>

(***************************************************************************)
(* Bounds                                                                  *)
(***************************************************************************)
MaxInvocations == 2
MaxToolCalls == 2
MaxInputLen == 2

(***************************************************************************)
(* Python values, tagged by type                                           *)
(***************************************************************************)
None == [t |-> "None"]
Pending == [t |-> "pending"]
Str(s) == [t |-> "str", v |-> s]
AIMessage(c) == [t |-> "AIMessage", content |-> c]
Dict(f) == [t |-> "dict", d |-> f]
Exc(name) == [t |-> "exception", name |-> name]
IsExc(x) == x.t = "exception"
HasKey(x, k) == x.t = "dict" /\ k \in DOMAIN x.d

\* the texts a free-text model response may carry
Texts == {"text1", "text2"}

(***************************************************************************)
(* business_advisor_lcel.py: the components                                *)
(***************************************************************************)

\* StrOutputParser: the text of a chat message
StrOutputParser(x) ==
  IF x.t = "AIMessage" THEN Str(x.content)
  ELSE IF x.t = "str" THEN x
  ELSE Exc("OutputParserException")

\* faulty variants of LogAppend: insert at the front; log the parsed text
LogAppendFront(l, x) == <<x>> \o l
LogAppendParsed(l, x) == Append(l, StrOutputParser(x))
\* lambda x: logs.append(x): the list after the call (the call returns None)
LogAppend(l, x) == Append(l, x)

\* faulty variant of TeeComplete: the log branch is not waited for
TeeOutputAlone(b) == b.output # Pending
\* RunnableParallel.invoke returns once every branch has returned
TeeComplete(b) == b.output # Pending /\ b.log # Pending

\* PromptTemplate.invoke: every placeholder must be a key of the input
FormatPrompt(name, key, x) ==
  IF HasKey(x, key)
  THEN [t |-> "StringPromptValue", template |-> name, arg |-> x.d[key]]
  ELSE Exc("KeyError")

\* faulty variants of Bridge: read the tee's "log" key; pass a state without
\* "output" through unchanged
BridgeFromLog(target, x) ==
  IF HasKey(x, "log") THEN Dict(target :> x.d["log"]) ELSE Exc("KeyError")
BridgeLenient(target, x) ==
  IF HasKey(x, "output") THEN Dict(target :> x.d["output"]) ELSE x
\* lambda x: {"idea_text": x["output"]} and lambda x: {"analysed_output": x["output"]}
Bridge(target, x) ==
  IF HasKey(x, "output") THEN Dict(target :> x.d["output"]) ELSE Exc("KeyError")

\* a Python list of strings
List(s) == [t |-> "list", items |-> s]
\* faulty variant of Field: a value that is no list becomes the default
FieldCoerced(resp, f) ==
  IF f \notin DOMAIN resp.d THEN List(<<>>)
  ELSE IF resp.d[f].t = "list" THEN resp.d[f]
  ELSE List(<<>>)
\* a field of AnalysisReport: List[str] = Field(default=[])
Field(resp, f) ==
  IF f \notin DOMAIN resp.d THEN List(<<>>)
  ELSE IF resp.d[f].t = "list" THEN resp.d[f]
  ELSE Exc("ValidationError")

\* AnalysisReport: the response validated against the two fields
AnalysisReport(resp) ==
  LET s == Field(resp, "strengths")
      w == Field(resp, "weaknesses")
  IN IF IsExc(s) \/ IsExc(w) THEN Exc("ValidationError")
     ELSE [t |-> "AnalysisReport", strengths |-> s, weaknesses |-> w]

\* e2e_chain: the pipe composition, flattened into its components
e2e_chain ==
  << [kind |-> "prompt", name |-> "idea_prompt",     key |-> "industry"],
     [kind |-> "llm",    name |-> "llm",             key |-> ""],
     [kind |-> "tee",    name |-> "parse_and_log",   key |-> ""],
     [kind |-> "bridge", name |-> "bridge1",         key |-> "idea_text"],
     [kind |-> "prompt", name |-> "analysis_prompt", key |-> "idea_text"],
     [kind |-> "llm",    name |-> "llm",             key |-> ""],
     [kind |-> "tee",    name |-> "parse_and_log",   key |-> ""],
     [kind |-> "bridge", name |-> "bridge2",         key |-> "analysed_output"],
     [kind |-> "prompt", name |-> "report_prompt",   key |-> "analysed_output"],
     [kind |-> "structured_llm", name |-> "llm.with_structured_output", key |-> ""] >>

\* the stage (idea_chain, analysis_chain, report_chain) a component belongs to
Stage(i) == IF i <= 4 THEN 1 ELSE IF i <= 8 THEN 2 ELSE 3

Current == e2e_chain[step]
Running(kind) == status = "Running" /\ Current.kind = kind

\* the mappings e2e_chain.invoke is given; __main__ passes {"industry": "agro"}
Inputs == { Dict("industry" :> Str("agro")), Dict("sector" :> Str("agro")) }

\* what the model may answer to the structured-output call, field by field
ListValues == { <<>>, <<"point1">>, <<"point1", "point2">> }
FieldValues == {None, Str("text1")} \cup {List(s) : s \in ListValues}
ResponseKeys == {"strengths", "weaknesses"}
Responses ==
  UNION { { Dict(f) : f \in [K -> FieldValues] } : K \in SUBSET ResponseKeys }

NoTee == [output |-> Pending, log |-> Pending]

(***************************************************************************)
(* business_advisor_lcel.py: e2e_chain.invoke, one component per step      *)
(***************************************************************************)

\* faulty variants of Raise: the error is recorded and the next component
\* runs on a stand-in value; the error comes with an empty report
RaiseSwallowed(e) ==
  /\ status' = (IF step < Len(e2e_chain) THEN "Running" ELSE "Done")
  /\ step' = (IF step < Len(e2e_chain) THEN step + 1 ELSE step)
  /\ error' = e
  /\ result' = None
  /\ value' = Dict("output" :> Str("text1"))
  /\ inCall' = FALSE
  /\ tee' = NoTee
  /\ UNCHANGED <<logs, inv, calls, logsAtInvoke>>
RaisePartialReport(e) ==
  /\ status' = "Failed"
  /\ error' = e
  /\ result' = [t |-> "AnalysisReport", strengths |-> List(<<>>), weaknesses |-> List(<<>>)]
  /\ value' = None
  /\ inCall' = FALSE
  /\ tee' = NoTee
  /\ UNCHANGED <<logs, step, inv, calls, logsAtInvoke>>
\* an exception leaves e2e_chain.invoke: no later component runs, and the
\* caller's except clause receives it
Raise(e) ==
  /\ status' = "Failed"
  /\ error' = e
  /\ result' = None
  /\ value' = None
  /\ inCall' = FALSE
  /\ tee' = NoTee
  /\ UNCHANGED <<logs, step, inv, calls, logsAtInvoke>>

\* the component returned v: the next component takes it
Pass(v) ==
  /\ value' = v
  /\ step' = step + 1
  /\ UNCHANGED <<status, result, error, inv, calls, logsAtInvoke>>

\* e2e_chain.invoke(x)
Invoke(x) ==
  /\ status \in {"Idle", "Done", "Failed"}
  /\ inv < MaxInvocations
  /\ status' = "Running"
  /\ step' = 1
  /\ value' = x
  /\ inCall' = FALSE
  /\ tee' = NoTee
  /\ result' = None
  /\ error' = None
  /\ inv' = inv + 1
  /\ calls' = 0
  /\ logsAtInvoke' = logs
  /\ raw' = <<>>
  /\ response' = None
  /\ UNCHANGED <<logs, bvars, jvars, rvars>>

\* idea_prompt, analysis_prompt, report_prompt
RenderPrompt ==
  /\ Running("prompt")
  /\ LET r == FormatPrompt(Current.name, Current.key, value)
     IN IF IsExc(r)
        THEN Raise(r)
        ELSE Pass(r) /\ UNCHANGED <<logs, inCall, tee>>
  /\ UNCHANGED <<hist, bvars, jvars, rvars>>

\* llm.invoke and the structured llm's invoke: the request leaves
ModelCallBegin ==
  /\ status = "Running"
  /\ Current.kind \in {"llm", "structured_llm"}
  /\ ~inCall
  /\ inCall' = TRUE
  /\ calls' = calls + 1
  /\ UNCHANGED <<logs, status, step, value, tee, result, error, inv, logsAtInvoke>>
  /\ UNCHANGED <<hist, bvars, jvars, rvars>>

\* llm.invoke returns a chat message
ModelCallReturn(c) ==
  /\ Running("llm")
  /\ inCall
  /\ inCall' = FALSE
  /\ Pass(AIMessage(c))
  /\ raw' = Append(raw, AIMessage(c))
  /\ UNCHANGED <<logs, tee, response>>
  /\ UNCHANGED <<bvars, jvars, rvars>>

\* the endpoint fails (transport, authentication, rate limit)
ModelCallFail ==
  /\ status = "Running"
  /\ inCall
  /\ Raise(Exc("EndpointError"))
  /\ UNCHANGED <<hist, bvars, jvars, rvars>>

\* parse_and_log_output_chain, branch output=parser
TeeOutputBranch ==
  /\ Running("tee")
  /\ tee.output = Pending
  /\ tee' = [tee EXCEPT !.output = StrOutputParser(value)]
  /\ UNCHANGED <<logs, status, step, value, inCall, result, error, inv, calls, logsAtInvoke>>
  /\ UNCHANGED <<hist, bvars, jvars, rvars>>

\* parse_and_log_output_chain, branch log=RunnableLambda(lambda x: logs.append(x))
TeeLogBranch ==
  /\ Running("tee")
  /\ tee.log = Pending
  /\ logs' = LogAppend(logs, value)
  /\ tee' = [tee EXCEPT !.log = None]
  /\ UNCHANGED <<status, step, value, inCall, result, error, inv, calls, logsAtInvoke>>
  /\ UNCHANGED <<hist, bvars, jvars, rvars>>

\* parse_and_log_output_chain returns {"output": ..., "log": None}
TeeJoin ==
  /\ Running("tee")
  /\ TeeComplete(tee)
  /\ IF IsExc(tee.output)
     THEN Raise(tee.output)
     ELSE /\ Pass(Dict("output" :> tee.output @@ "log" :> tee.log))
          /\ tee' = NoTee
          /\ UNCHANGED <<logs, inCall>>
  /\ UNCHANGED <<hist, bvars, jvars, rvars>>

\* the two bridging lambdas of e2e_chain
BridgeStep ==
  /\ Running("bridge")
  /\ LET r == Bridge(Current.key, value)
     IN IF IsExc(r)
        THEN Raise(r)
        ELSE Pass(r) /\ UNCHANGED <<logs, inCall, tee>>
  /\ UNCHANGED <<hist, bvars, jvars, rvars>>

\* llm.with_structured_output(AnalysisReport) returns: the response is validated
StructuredReturn(resp) ==
  /\ Running("structured_llm")
  /\ inCall
  /\ LET r == AnalysisReport(resp)
     IN IF IsExc(r)
        THEN Raise(r)
        ELSE /\ status' = "Done"
             /\ result' = r
             /\ value' = None
             /\ inCall' = FALSE
             /\ UNCHANGED <<logs, step, tee, error, inv, calls, logsAtInvoke>>
  /\ response' = resp
  /\ UNCHANGED <<raw, bvars, jvars, rvars>>

PipelineInit ==
  /\ logs = <<>>
  /\ status = "Idle"
  /\ step = 1
  /\ value = None
  /\ inCall = FALSE
  /\ tee = NoTee
  /\ result = None
  /\ error = None
  /\ inv = 0
  /\ calls = 0
  /\ logsAtInvoke = <<>>
  /\ raw = <<>>
  /\ response = None

PipelineNext ==
  \/ \E x \in Inputs : Invoke(x)
  \/ RenderPrompt
  \/ ModelCallBegin
  \/ \E c \in Texts : ModelCallReturn(c)
  \/ ModelCallFail
  \/ TeeOutputBranch
  \/ TeeLogBranch
  \/ TeeJoin
  \/ BridgeStep
  \/ \E r \in Responses : StructuredReturn(r)

(***************************************************************************)
(* business_advisor_lcel.py: a bridging lambda applied on its own, once    *)
(* and then to its own result                                              *)
(***************************************************************************)
BridgeTargets == {"idea_text", "analysed_output"}
BridgeKeys == {"output", "idea_text", "analysed_output"}
BridgeStates ==
  UNION { { Dict(f) : f \in [K -> {Str(c) : c \in Texts}] } : K \in SUBSET BridgeKeys }
  \cup { Dict("output" :> Str(c) @@ "log" :> None) : c \in Texts }

BridgeInit ==
  /\ bIn \in BridgeStates
  /\ bTarget \in BridgeTargets
  /\ bOnce = Pending
  /\ bTwice = Pending

BridgeIdle ==
  /\ bIn = None
  /\ bTarget = ""
  /\ bOnce = Pending
  /\ bTwice = Pending

BridgeOnce ==
  /\ bOnce = Pending
  /\ bOnce' = Bridge(bTarget, bIn)
  /\ UNCHANGED <<bIn, bTarget, bTwice, pvars, jvars, rvars>>

BridgeTwice ==
  /\ bOnce # Pending
  /\ ~IsExc(bOnce)
  /\ bTwice = Pending
  /\ bTwice' = Bridge(bTarget, bOnce)
  /\ UNCHANGED <<bIn, bTarget, bOnce, pvars, jvars, rvars>>

BridgeNext == BridgeOnce \/ BridgeTwice

(***************************************************************************)
(* agent.py: Judge.evaluate_tool_usage                                     *)
(***************************************************************************)
ToolNames == {"tool_a", "tool_b", "tool_c"}
SeqsUpTo(S, n) == UNION { [1..k -> S] : k \in 0..n }
ToSet(s) == { s[i] : i \in DOMAIN s }

RECURSIVE GCD(_, _)
GCD(a, b) == IF b = 0 THEN a ELSE GCD(b, a % b)

\* a Python float that is a ratio of two lengths, in lowest terms
Float(n, d) == [t |-> "float", num |-> n \div GCD(n, d), den |-> d \div GCD(n, d)]
\* len(x) / len(y)
Div(n, d) == IF d = 0 THEN Exc("ZeroDivisionError") ELSE Float(n, d)

\* faulty variant of Appropriateness: divides by the tools called or expected
AppropriatenessOverExpected(actual, expected) ==
  IF actual # {}
  THEN Div(Cardinality(actual \cap expected), Cardinality(actual \cup expected))
  ELSE IF expected = {} THEN Float(1, 1) ELSE Float(0, 1)
\* len(correct_calls) / len(actual) if actual else (1.0 if not expected else 0.0)
Appropriateness(actual, expected) ==
  IF actual # {}
  THEN Div(Cardinality(actual \cap expected), Cardinality(actual))
  ELSE IF expected = {} THEN Float(1, 1) ELSE Float(0, 1)

\* len(correct_calls) / len(expected) if expected else 1.0
Completeness(actual, expected) ==
  IF expected # {}
  THEN Div(Cardinality(actual \cap expected), Cardinality(expected))
  ELSE Float(1, 1)

evaluate_tool_usage(a, e) ==
  LET actual == ToSet(a)
      expected == ToSet(e)
      app == Appropriateness(actual, expected)
      com == Completeness(actual, expected)
  IN IF IsExc(app) THEN app
     ELSE IF IsExc(com) THEN com
     ELSE [t |-> "dict", TOOL_APPROPRIATENESS |-> app, TOOL_COMPLETENESS |-> com]

JudgeInit ==
  /\ actual_tools \in SeqsUpTo(ToolNames, MaxToolCalls)
  /\ expected_tools \in SeqsUpTo(ToolNames, MaxToolCalls)
  /\ scores = Pending

JudgeIdle ==
  /\ actual_tools = <<>>
  /\ expected_tools = <<>>
  /\ scores = Pending

EvaluateToolUsage ==
  /\ scores = Pending
  /\ scores' = evaluate_tool_usage(actual_tools, expected_tools)
  /\ UNCHANGED <<actual_tools, expected_tools, pvars, bvars, rvars>>

(***************************************************************************)
(* prompt_routing_langGraph.py: the router the exercise asks for. The file *)
(* holds the task statement and the imports; the graph is modelled from    *)
(* the task statement and the specification's routing variant.             *)
(***************************************************************************)
Alphabet == {"h", "e", "l", "o"}
Hello == <<"h", "e", "l", "l", "o">>
RouterInputs == SeqsUpTo(Alphabet, MaxInputLen) \cup {Hello}
RouterActions == {"reverse", "upper", "delete"}

Text(s) == [t |-> "text", chars |-> s]
InvalidAction == [t |-> "InvalidAction"]

UpperChar(c) ==
  CASE c = "h" -> "H" [] c = "e" -> "E" [] c = "l" -> "L" [] c = "o" -> "O" [] OTHER -> c

\* the reverse node: state["input"][::-1]
Reverse(s) == [i \in 1..Len(s) |-> s[Len(s) + 1 - i]]
\* the upper node: state["input"].upper()
Upper(s) == [i \in 1..Len(s) |-> UpperChar(s[i])]

\* faulty variant of Route: an unknown action falls through to upper
RouteDefault(action) ==
  IF action = "reverse" THEN "reverse" ELSE "upper"
\* the conditional edge out of START
Route(action) ==
  IF action = "reverse" THEN "reverse"
  ELSE IF action = "upper" THEN "upper"
  ELSE "invalid"

RouterInit ==
  /\ rInput \in RouterInputs
  /\ rAction \in RouterActions
  /\ rNode = "START"
  /\ rOutput = Pending
  /\ rPath = <<"START">>

RouterIdle ==
  /\ rInput = <<>>
  /\ rAction = ""
  /\ rNode = "START"
  /\ rOutput = Pending
  /\ rPath = <<"START">>

RouterRoute ==
  /\ rNode = "START"
  /\ rNode' = Route(rAction)
  /\ rPath' = Append(rPath, rNode')
  /\ UNCHANGED <<rInput, rAction, rOutput, pvars, bvars, jvars>>

ReverseNode ==
  /\ rNode = "reverse"
  /\ rOutput' = Text(Reverse(rInput))
  /\ rNode' = "END"
  /\ rPath' = Append(rPath, "END")
  /\ UNCHANGED <<rInput, rAction, pvars, bvars, jvars>>

UpperNode ==
  /\ rNode = "upper"
  /\ rOutput' = Text(Upper(rInput))
  /\ rNode' = "END"
  /\ rPath' = Append(rPath, "END")
  /\ UNCHANGED <<rInput, rAction, pvars, bvars, jvars>>

InvalidNode ==
  /\ rNode = "invalid"
  /\ rOutput' = InvalidAction
  /\ rNode' = "END"
  /\ rPath' = Append(rPath, "END")
  /\ UNCHANGED <<rInput, rAction, pvars, bvars, jvars>>

RouterNext == RouterRoute \/ ReverseNode \/ UpperNode \/ InvalidNode

(***************************************************************************)
(* Specifications                                                          *)
(***************************************************************************)
Init == PipelineInit /\ BridgeIdle /\ JudgeIdle /\ RouterIdle
Next == PipelineNext
Spec == Init /\ [][Next]_vars

InitBridge == PipelineInit /\ BridgeInit /\ JudgeIdle /\ RouterIdle
SpecBridge == InitBridge /\ [][BridgeNext]_vars

SpecBridged == InitBridge /\ [][PipelineNext \/ BridgeNext]_vars

InitJudge == PipelineInit /\ BridgeIdle /\ JudgeInit /\ RouterIdle
SpecJudge == InitJudge /\ [][EvaluateToolUsage]_vars

InitRouter == PipelineInit /\ BridgeIdle /\ JudgeIdle /\ RouterInit
SpecRouter == InitRouter /\ [][RouterNext]_vars

(***************************************************************************)
(* Properties                                                              *)
(***************************************************************************)
IsReport(x) == x.t = "AnalysisReport"
Base == Len(logsAtInvoke)
\* the audit list is what it was at invoke, followed by the sequence `tail`
GrewBy(tail) == logs = logsAtInvoke \o tail

\* C1, as stated: after a successful run of e2e_chain.invoke the audit list
\* has length exactly 2, Stage 1's raw output followed by Stage 2's, and the
\* report of Stage 3 is not in it.
C1_LengthExactlyTwo ==
  status = "Done" =>
    /\ Len(logs) = 2
    /\ Len(raw) = 2
    /\ logs = raw
    /\ \A i \in 1..Len(logs) : logs[i] # result

\* C1, amended: a successful run appends exactly 2 entries after those already
\* in the audit list when it began: Stage 1's raw chat message, then Stage
\* 2's; the report is not logged; the length is exactly 2 when the list was
\* empty at invoke (the first invocation of the process).
C1_GrowsByTwo ==
  status = "Done" =>
    /\ Len(raw) = 2
    /\ \A i \in 1..2 : raw[i].t = "AIMessage"
    /\ GrewBy(raw)
    /\ \A i \in 1..Len(logs) : logs[i] # result
    /\ (logsAtInvoke = <<>> => Len(logs) = 2)

\* C1 witness: a second run succeeded on an audit list that was not empty
C1_Witness == status = "Done" /\ inv = 2 /\ Len(logsAtInvoke) > 0 /\ Len(logs) > 2

\* the invocation failed in the model call of Stage 2 (analysis_chain)
Stage2CallFailed ==
  /\ status = "Failed"
  /\ step = 6
  /\ calls = 2

\* C2, as stated: when Stage 2's model invocation fails with an endpoint
\* error, the audit list holds exactly 1 entry (Stage 1's raw output), the
\* caller receives the endpoint error and no report is returned.
C2_ExactlyOneEntry ==
  Stage2CallFailed =>
    /\ Len(logs) = 1
    /\ Len(raw) = 1
    /\ logs[1] = raw[1]
    /\ error = Exc("EndpointError")
    /\ result = None

\* C2, amended: when Stage 2's model invocation fails with an endpoint error,
\* the invocation has appended exactly 1 entry (Stage 1's raw output) after
\* the entries present at invoke, the caller receives the endpoint error and
\* no report; the list holds exactly 1 entry when it was empty at invoke.
C2_GrowsByOne ==
  Stage2CallFailed =>
    /\ Len(raw) = 1
    /\ GrewBy(<<raw[1]>>)
    /\ error = Exc("EndpointError")
    /\ result = None
    /\ ~IsReport(result)
    /\ (logsAtInvoke = <<>> => Len(logs) = 1)

\* C2 witness: Stage 2's call failed in the first invocation of the process
C2_Witness == Stage2CallFailed /\ inv = 1 /\ Len(logs) = 1

\* C3: once the model call of stage i+1 has begun (i = 1, 2), the audit list
\* already holds stage i's raw output at its place after the entries present
\* at invoke: the append is not deferred past the tee.
C3_LoggedBeforeNextCall ==
  \A i \in 1..2 :
    calls >= i + 1 =>
      /\ Len(raw) >= i
      /\ Len(logs) >= Base + i
      /\ logs[Base + i] = raw[i]

\* C3 witness: Stage 3's model call is in flight, both entries logged
C3_Witness ==
  status = "Running" /\ step = 10 /\ inCall /\ calls = 3 /\ Len(logs) = Base + 2

\* an invocation is over and no new one has begun in this step
SameInvocationOver == status \in {"Done", "Failed"} /\ inv' = inv

\* C4: the driver is fail-fast and Failed is absorbing for the invocation: an
\* error is set exactly in Failed, a report exactly in Done; after Failed or
\* Done nothing of the invocation changes (no further component, model call
\* or log append) until a new invocation begins; Done is never reached once
\* an error was raised.
C4_FailFast ==
  /\ [](status = "Failed" <=> IsExc(error))
  /\ [](status = "Done" <=> IsReport(result))
  /\ [](~(IsExc(error) /\ IsReport(result)))
  /\ [](status \in {"Idle", "Running"} => error = None /\ result = None)
  /\ [][SameInvocationOver => UNCHANGED pvars]_vars
  /\ [][IsExc(error) /\ inv' = inv => status' = "Failed"]_vars

\* C4 witness: Stage 2's model call failed, so Stage 3 was never invoked
C4_Witness ==
  status = "Failed" /\ error = Exc("EndpointError") /\ step = 6 /\ calls = 2 /\ Len(raw) = 1

\* C5: the router sends ("hello", reverse) to the reverse node and ends with
\* "olleh", ("hello", upper) to the upper node and ends with "HELLO"; an action
\* outside {reverse, upper} ends with the distinct InvalidAction outcome: the
\* run ends (no crash), its output is not the input string, and it went
\* through neither transformation node.
C5_Routing ==
  rNode = "END" =>
    /\ (rAction = "reverse" => rPath = <<"START", "reverse", "END">>)
    /\ (rAction = "upper" => rPath = <<"START", "upper", "END">>)
    /\ (rInput = Hello /\ rAction = "reverse" => rOutput = Text(<<"o", "l", "l", "e", "h">>))
    /\ (rInput = Hello /\ rAction = "upper" => rOutput = Text(<<"H", "E", "L", "L", "O">>))
    /\ (rAction \notin {"reverse", "upper"} =>
          /\ rOutput = InvalidAction
          /\ rOutput # Text(rInput)
          /\ rOutput.t # "text"
          /\ rPath = <<"START", "invalid", "END">>)

\* C5 witness: ("hello", "delete") ended with InvalidAction
C5_Witness ==
  rNode = "END" /\ rInput = Hello /\ rAction = "delete" /\ rOutput = InvalidAction

\* the state has exactly the structure the bridge produces
TargetShaped(x, target) == x.t = "dict" /\ DOMAIN x.d = {target}

\* C6, as stated: a bridge applied to a state that already has the target key
\* structure succeeds and returns it unchanged, and applying the bridge twice
\* gives what applying it once gives.
C6_Idempotent ==
  /\ (bOnce # Pending /\ TargetShaped(bIn, bTarget) => bOnce = bIn)
  /\ (bOnce # Pending /\ ~IsExc(bOnce) => (bTwice # Pending => bTwice = bOnce))

\* C6, amended: the bridge reads only the key "output": on a state that has
\* it, the result is exactly {target: state["output"]}; on a state without it
\* (one that already has the target key structure included) it raises
\* KeyError; so the bridge applied to its own result raises KeyError and is
\* not idempotent.
C6_BridgeReadsOutput ==
  /\ (bOnce # Pending =>
        IF HasKey(bIn, "output")
        THEN bOnce = Dict(bTarget :> bIn.d["output"]) /\ TargetShaped(bOnce, bTarget)
        ELSE bOnce = Exc("KeyError"))
  /\ (bOnce # Pending /\ TargetShaped(bIn, bTarget) => bOnce = Exc("KeyError"))
  /\ (bTwice # Pending => bTwice = Exc("KeyError"))

\* C6 witness: the bridge was applied to its own result
C6_Witness ==
  /\ bTarget = "idea_text"
  /\ bIn = Dict("output" :> Str("text1") @@ "log" :> None)
  /\ bOnce = Dict("idea_text" :> Str("text1"))
  /\ bTwice = Exc("KeyError")

ReportFields == {"strengths", "weaknesses"}
IsTextList(x) == x.t = "list" /\ \A i \in 1..Len(x.items) : x.items[i] \in STRING

\* C7: a returned result is an AnalysisReport whose strengths and weaknesses
\* are both lists of text, never None or missing: a field the response omits
\* is the empty list, a field the response gives as a list is that list; a
\* response with a field of another shape makes the invocation fail with a
\* validation error and no report.
C7_ReportShape ==
  /\ (result # None => status = "Done" /\ IsReport(result))
  /\ (status = "Done" =>
        /\ response # None
        /\ \A f \in ReportFields :
             /\ IsTextList(result[f])
             /\ (f \notin DOMAIN response.d => result[f] = List(<<>>))
             /\ (f \in DOMAIN response.d => result[f] = response.d[f]))
  /\ (response # None /\ (\E f \in DOMAIN response.d : response.d[f].t # "list") =>
        /\ status = "Failed"
        /\ error = Exc("ValidationError")
        /\ result = None)

\* C7 witness: the response omitted weaknesses and the report has it empty
C7_Witness ==
  /\ status = "Done"
  /\ DOMAIN response.d = {"strengths"}
  /\ result.strengths = List(<<"point1">>)
  /\ result.weaknesses = List(<<>>)

\* C8: the audit list is append-only over the process: every step leaves it
\* unchanged or adds exactly one entry at its end, and the only step that
\* changes it is the log branch of a running tee (which appends the tee's
\* input); rendering, model calls, bridges and the structured stage do not.
C8_AppendOnly ==
  [][ /\ \/ logs' = logs
         \/ logs' = Append(logs, value)
      /\ (logs' # logs =>
            /\ Running("tee")
            /\ tee.log = Pending
            /\ tee'.log = None
            /\ Len(logs') = Len(logs) + 1
            /\ SubSeq(logs', 1, Len(logs)) = logs) ]_vars

\* C8 witness: entries of two invocations, one of them failed, in one list
C8_Witness == inv = 2 /\ Len(logs) = 3 /\ status = "Failed"

\* C9: a prompt is rendered only from a state that has its key (industry,
\* idea_text, analysed_output), and a state without it fails the invocation
\* with KeyError; before Stage 2 and Stage 3 the state is exactly the bridged
\* key, bound to the parsed text of the preceding stage's message, not to the
\* log branch's None; a bridge given a state without "output" raises KeyError
\* and produces no state.
C9_KeysAtBoundaries ==
  /\ [](Running("prompt") /\ step > 1 =>
          /\ TargetShaped(value, Current.key)
          /\ Current.key = e2e_chain[step - 1].key
          /\ value.d[Current.key] = Str(raw[Stage(step) - 1].content)
          /\ value.d[Current.key] # None)
  /\ [](Running("bridge") =>
          /\ HasKey(value, "output")
          /\ value.d["output"] = Str(raw[Stage(step)].content)
          /\ value.d["log"] = None)
  /\ [](bOnce # Pending /\ ~HasKey(bIn, "output") => bOnce = Exc("KeyError"))
  /\ [][Running("prompt") /\ pvars' # pvars =>
          IF HasKey(value, Current.key)
          THEN status' = "Running" /\ step' = step + 1
          ELSE status' = "Failed" /\ error' = Exc("KeyError")]_vars

\* C9 witness: Stage 3's prompt is about to be rendered from the bridged state
C9_Witness ==
  /\ Running("prompt")
  /\ step = 9
  /\ value = Dict("analysed_output" :> Str("text2"))
  /\ bOnce = Exc("KeyError")

Intersection == ToSet(actual_tools) \cap ToSet(expected_tools)
InUnitInterval(x) == x.t = "float" /\ 0 <= x.num /\ x.num <= x.den /\ x.den > 0
\* the float x is the ratio n / d
IsRatio(x, n, d) == x.t = "float" /\ d > 0 /\ x.num * d = n * x.den

\* C10: with A and E the sets of actual and expected tool names, the result
\* is (|A n E| / |A|, |A n E| / |E|) for non-empty sets, (1, 1) for A and E
\* empty, (0, 0) for A empty and E not, (0, 1) for E empty and A not; no
\* division by zero; both values are in [0, 1]; both are 1 exactly when A = E.
C10_ToolUsage ==
  scores # Pending =>
    LET A == ToSet(actual_tools)
        E == ToSet(expected_tools)
        n == Cardinality(Intersection)
    IN /\ scores.t = "dict"
       /\ LET app == scores.TOOL_APPROPRIATENESS
              com == scores.TOOL_COMPLETENESS
          IN /\ InUnitInterval(app)
             /\ InUnitInterval(com)
             /\ (A # {} => IsRatio(app, n, Cardinality(A)))
             /\ (E # {} => IsRatio(com, n, Cardinality(E)))
             /\ (A = {} /\ E = {} => app = Float(1, 1) /\ com = Float(1, 1))
             /\ (A = {} /\ E # {} => app = Float(0, 1) /\ com = Float(0, 1))
             /\ (A # {} /\ E = {} => app = Float(0, 1) /\ com = Float(1, 1))
             /\ ((app = Float(1, 1) /\ com = Float(1, 1)) <=> A = E)

\* C10 witness: two tools called, one of them among the two expected
C10_Witness ==
  /\ scores # Pending
  /\ Cardinality(ToSet(actual_tools)) = 2
  /\ Cardinality(ToSet(expected_tools)) = 2
  /\ scores.TOOL_APPROPRIATENESS = Float(1, 2)
  /\ scores.TOOL_COMPLETENESS = Float(1, 2)

====
